---- MODULE Spec2Model ----
(***************************************************************************)
(* Model of the hook-lab token analyzers: analyze-hooks.py and             *)
(* analyze-session.py.  Each behaviour runs one of the two scripts on one   *)
(* session log (parse_session), or applies one of the pure cost functions   *)
(* (calculate_cost) to one input.                                           *)
(*                                                                         *)
(* A JSON object is a function from its keys to its values, so that        *)
(* dict.get(k, default) is Get(d, k, default).  A string the code inspects  *)
(* character by character (a model identifier, a prompt) is a tuple of      *)
(* one-character strings.  A dict whose iteration order the code uses is a  *)
(* record [keys, val] with keys in insertion order.                         *)
(***************************************************************************)
EXTENDS Integers, Sequences, FiniteSets, TLC

VARIABLES
    prog,              \* which script runs: "hooks", "session", or "cost"
    pc,                \* position inside the script
    lines,             \* the session file, a sequence of lines
    pos,               \* index of the next line / entry / request id
    entries,           \* parse_session: entries
    seen_request_ids,  \* parse_session: seen_request_ids (dict in hooks, set in session)
    result,            \* parse_session: result
    tokens,            \* calculate_cost: first argument
    tier,              \* calculate_cost: second argument (analyze-hooks only)
    cost,              \* calculate_cost: returned value
    exists,            \* whether the session file can be opened
    raised,            \* the exception that ended the run, or None
    baseline,          \* compare_sessions: first summary (baseline, data1)
    test,              \* compare_sessions: second summary (test, data2)
    printed            \* compare_sessions: the rows printed

vars == <<prog, pc, lines, pos, entries, seen_request_ids, result, tokens, tier, cost,
          exists, raised, baseline, test, printed>>

\* ------------------------------------------------------------------ bounds
MaxLines == 3
MaxTok == 2
MaxCompare == 2

\* ------------------------------------------------------- python primitives
None == "None"

Get(d, k, default) == IF k \in DOMAIN d THEN d[k] ELSE default

\* a fold that keeps the latest value instead of the greatest
MaxLatest(a, b) == b

Max(a, b) == IF b > a THEN b ELSE a

EmptyDict == [keys |-> <<>>, val |-> <<>>]

DictHas(d, k) == k \in DOMAIN d.val

DictGet(d, k, default) == IF DictHas(d, k) THEN d.val[k] ELSE default

DictSet(d, k, v) ==
    [keys |-> IF DictHas(d, k) THEN d.keys ELSE Append(d.keys, k),
     val  |-> (k :> v) @@ d.val]

Prefix(s, n) == SubSeq(s, 1, IF Len(s) < n THEN Len(s) ELSE n)

UpperChars == <<"A","B","C","D","E","F","G","H","I","J","K","L","M",
                "N","O","P","Q","R","S","T","U","V","W","X","Y","Z">>
LowerChars == <<"a","b","c","d","e","f","g","h","i","j","k","l","m",
                "n","o","p","q","r","s","t","u","v","w","x","y","z">>

LowerChar(c) ==
    IF \E i \in 1..26 : UpperChars[i] = c
    THEN LowerChars[CHOOSE i \in 1..26 : UpperChars[i] = c]
    ELSE c

\* a lower() that leaves every character as it is
LowerNothing(s) == s

Lower(s) == [i \in 1..Len(s) |-> LowerChar(s[i])]

Contains(s, sub) ==
    \E i \in 0..(Len(s) - Len(sub)) : SubSeq(s, i + 1, i + Len(sub)) = sub

RECURSIVE SumOver(_, _)
SumOver(S, f) ==
    IF S = {} THEN 0
    ELSE LET x == CHOOSE y \in S : TRUE IN f[x] + SumOver(S \ {x}, f)

\* ------------------------------------------------------------ log records
UsageKeys == <<"input_tokens", "output_tokens",
               "cache_creation_input_tokens", "cache_read_input_tokens">>

\* a JSON value that is not an object (a number, a string): the code can test
\* it with isinstance, and any other use of it as a dict raises.  No object of
\* the inputs has the key "nonobject".
NonObject(kind) == [nonobject |-> kind]

IsObject(v) == "nonobject" \notin DOMAIN v

StrContent(s) == [kind |-> "str", v |-> s]
ListContent(items) == [kind |-> "list", v |-> items]

Haiku3 == <<"c","l","a","u","d","e","-","3","-","5","-","h","a","i","k","u","-","2","0","2","4","1","0","2","2">>
Opus3 == <<"c","l","a","u","d","e","-","3","-","o","p","u","s","-","2","0","2","4","0","2","2","9">>
HaikuUpper == <<"C","l","a","u","d","e","-","H","A","I","K","U","-","4">>
HaikSplit == <<"h","a","i","k","-","u">>
Unknown == <<"u","n","k","n","o","w","n">>
HaikuWord == <<"h","a","i","k","u">>

\* one line of the file: text that json.loads rejects, or the object it returns
BadLine == [parses |-> FALSE, value |-> <<>>]
GoodLine(obj) == [parses |-> TRUE, value |-> obj]

Assistant(rid, msg) ==
    GoodLine(IF rid = None
             THEN [type |-> "assistant", message |-> msg]
             ELSE [type |-> "assistant", requestId |-> rid, message |-> msg])

Msg(model, usage) == [model |-> model, usage |-> usage]

OneKey(k, v) == (k :> v)

AllKeys(a, b, c, d) ==
    [input_tokens |-> a, output_tokens |-> b,
     cache_creation_input_tokens |-> c, cache_read_input_tokens |-> d]

RequestIds == {"", "r1", "r2"}

\* snapshots of two calls that report one counter only
FamCounter(k) ==
    {Assistant(rid, Msg(Opus3, OneKey(k, v))) : rid \in {"r1", "r2"}, v \in 1..MaxTok}

\* snapshots without a request id among snapshots of one call, zero values included
FamUnnamed ==
    {Assistant(rid, Msg(Opus3, OneKey("input_tokens", v))) :
        rid \in {"", "r1"}, v \in 0..MaxTok}

\* snapshots that report all four counters, with two models
FamMixed ==
    {Assistant(rid, Msg(m, u)) :
        rid \in {"r1", "r2"}, m \in {Haiku3, Opus3},
        u \in {AllKeys(1, 2, 4, 8), AllKeys(MaxTok, 1, 0, 16)}}

\* snapshots that differ in the model string, the model key being absent in one
\* and the request id in another
FamModel ==
    {Assistant("r1", Msg(m, AllKeys(1, 2, 4, 8))) :
        m \in {Haiku3, Opus3, HaikuUpper, HaikSplit}}
    \cup {Assistant("r2", Msg(m, AllKeys(1, 2, 4, 8))) : m \in {Haiku3, Opus3}}
    \cup {Assistant("r1", [usage |-> AllKeys(1, 2, 4, 8)]),
          Assistant(None, Msg(Haiku3, AllKeys(1, 2, 4, 8)))}

\* lines of every kind the reader and the scan distinguish
FamLines ==
    {BadLine,
     GoodLine([type |-> "user", message |-> [content |-> StrContent(<<"h","i">>)],
               timestamp |-> "t1"]),
     GoodLine([type |-> "user", message |-> [content |-> ListContent(<<>>)]]),
     GoodLine([type |-> "summary"]),
     Assistant("r1", Msg(Opus3, <<>>)),
     Assistant("r1", [model |-> Opus3]),
     Assistant("r1", [model |-> Opus3, usage |-> OneKey("input_tokens", 1),
                      content |-> ListContent(<<[type |-> "tool_use", name |-> "Bash"],
                                                [type |-> "thinking"]>>)]),
     Assistant("r2", [model |-> Haiku3, usage |-> AllKeys(1, 2, 4, 8),
                      content |-> StrContent(<<"o","k">>)])}

\* lines that parse but whose value, message, usage or counter has another shape
FamShapes ==
    {GoodLine(NonObject("number")),
     GoodLine([type |-> "user", message |-> NonObject("string")]),
     Assistant("r1", NonObject("string")),
     Assistant("", Msg(Opus3, NonObject("number"))),
     Assistant("r1", Msg(Opus3, NonObject("number"))),
     Assistant("r1", Msg(Opus3, OneKey("input_tokens", 1)))}

\* a text of n characters, no two neighbours alike
DigitChars == <<"0","1","2","3","4","5","6","7","8","9">>
LongText(n) == [i \in 1..n |-> DigitChars[(i % 10) + 1]]

\* user records whose content is empty, short, longer than either preview
\* length, or not a string
FamPrompts ==
    {GoodLine([type |-> "user", message |-> [content |-> StrContent(<<>>)]]),
     GoodLine([type |-> "user", message |-> [content |-> StrContent(<<"h","i">>)],
               timestamp |-> "t1"]),
     GoodLine([type |-> "user", message |-> [content |-> StrContent(LongText(101))],
               timestamp |-> "t2"]),
     GoodLine([type |-> "user", message |-> [content |-> StrContent(LongText(201))]]),
     GoodLine([type |-> "user",
               message |-> [content |-> ListContent(<<[type |-> "tool_result"]>>)]])}

\* records whose content holds several blocks, thinking blocks and tool uses
\* among them, one tool use without a name and one item that is not an object
FamBlocks ==
    {Assistant("r1", [model |-> Opus3,
                      content |-> ListContent(<<[type |-> "thinking"], [type |-> "thinking"],
                                                [type |-> "tool_use", name |-> "Bash"]>>)]),
     Assistant("r2", [model |-> Opus3,
                      content |-> ListContent(<<[type |-> "tool_use", name |-> "Read"],
                                                [type |-> "text"], [type |-> "thinking"]>>)]),
     Assistant("r2", [model |-> Opus3,
                      content |-> ListContent(<<[type |-> "tool_use"],
                                                NonObject("string")>>)]),
     Assistant("r1", [model |-> Opus3, content |-> StrContent(<<"d","o","n","e","!">>)]),
     GoodLine([type |-> "user",
               message |-> [content |-> ListContent(<<[type |-> "thinking"],
                                                      [type |-> "tool_use", name |-> "Edit"]>>)]])}

Families ==
    {FamCounter(UsageKeys[i]) : i \in 1..4}
    \cup {FamUnnamed, FamMixed, FamModel, FamLines, FamShapes, FamPrompts, FamBlocks}

SeqsUpTo(S, n) == UNION {[1..m -> S] : m \in 0..n}

Snap(rid, v) == Assistant(rid, Msg(Opus3, OneKey("input_tokens", v)))

\* the files named by the specification's examples
ExampleFiles ==
    {<<Snap("r1", 5), Snap("r1", 5), Snap("r1", 12), Snap("r1", 8)>>,
     <<GoodLine([type |-> "summary"]), BadLine,
       GoodLine([type |-> "user", message |-> [content |-> StrContent(<<"h","i">>)]]),
       Snap("r1", 5)>>}

Files == UNION {SeqsUpTo(F, MaxLines) : F \in Families} \cup ExampleFiles

\* ------------------------------------------------ the reader (both scripts)
\* json.loads(line): the parsed object, or JSONDecodeError
json_loads(line) == IF line.parses THEN <<"ok", line.value>> ELSE <<"JSONDecodeError">>

\* a reader that keeps an empty object for a line it cannot parse
read_line_keep(ents, line) ==
    LET r == json_loads(line)
    IN IF r[1] = "ok" THEN Append(ents, r[2]) ELSE Append(ents, <<>>)

\* one iteration of "for line in f: try: entries.append(json.loads(line))
\*                                  except json.JSONDecodeError: continue"
read_line(ents, line) ==
    LET r == json_loads(line)
    IN IF r[1] = "ok" THEN Append(ents, r[2]) ELSE ents

\* ------------------------------------------------------ analyze-hooks.py
HooksResult(ents) ==
    [entry_count |-> Len(ents),
     main_agent |-> [api_calls |-> 0, input_tokens |-> 0, output_tokens |-> 0,
                     cache_creation |-> 0, cache_read |-> 0, models |-> <<>>],
     hooks |-> [command |-> [count |-> 0, context_tokens |-> 0],
                prompt |-> [count |-> 0, input_tokens |-> 0, output_tokens |-> 0],
                agent |-> [count |-> 0, input_tokens |-> 0, output_tokens |-> 0]],
     api_calls_by_model |-> <<>>,
     user_prompts |-> <<>>,
     tool_uses |-> <<>>,
     additional_context |-> <<>>]

\* "Track user prompts": the previews after one entry
hooks_user_prompts(prompts, entry) ==
    IF Get(entry, "type", None) = "user"
    THEN LET msg == Get(entry, "message", <<>>)
             content == Get(msg, "content", StrContent(<<>>))
         IN IF IsObject(msg) /\ content.kind = "str" /\ content.v # <<>>
            THEN Append(prompts, [content |-> Prefix(content.v, 200),
                                  timestamp |-> Get(entry, "timestamp", None)])
            ELSE prompts
    ELSE prompts

\* "Track per-request (take max values due to streaming)": seen_request_ids
\* after one entry
hooks_track_request(seen, entry) ==
    IF Get(entry, "type", None) = "assistant"
    THEN LET msg == Get(entry, "message", <<>>)
             request_id == Get(entry, "requestId", "")
             model == Get(msg, "model", Unknown)
             usage == Get(msg, "usage", <<>>)
         IN IF DOMAIN usage # {} /\ request_id # ""
            THEN LET current == DictGet(seen, request_id,
                                    [model |-> model, input_tokens |-> 0,
                                     output_tokens |-> 0, cache_creation |-> 0,
                                     cache_read |-> 0])
                 IN DictSet(seen, request_id,
                        [model |-> current.model,
                         input_tokens |-> Max(current.input_tokens,
                                              Get(usage, "input_tokens", 0)),
                         output_tokens |-> Max(current.output_tokens,
                                               Get(usage, "output_tokens", 0)),
                         cache_creation |-> Max(current.cache_creation,
                                                Get(usage, "cache_creation_input_tokens", 0)),
                         cache_read |-> Max(current.cache_read,
                                            Get(usage, "cache_read_input_tokens", 0))])
            ELSE seen
    ELSE seen

RECURSIVE ToolNames(_)
ToolNames(items) ==
    IF items = <<>> THEN <<>>
    ELSE (IF Get(Head(items), "type", None) = "tool_use"
          THEN <<Get(Head(items), "name", "unknown")>> ELSE <<>>)
         \o ToolNames(Tail(items))

\* "Track tool uses": tool_uses after one entry
hooks_tool_uses(uses, entry) ==
    IF Get(entry, "type", None) = "assistant"
    THEN LET msg == Get(entry, "message", <<>>)
             content == Get(msg, "content", ListContent(<<>>))
         IN IF content.kind = "list" THEN uses \o ToolNames(content.v) ELSE uses
    ELSE uses

\* the classification heuristic: 'haiku' in model.lower()
is_hook(model) == Contains(Lower(model), HaikuWord)

\* a categorisation that adds the cache-read tokens of a main-agent call to
\* its cache-creation total
hooks_categorize_mixed(res, data) ==
    LET model == data.model
        calls == (model :> Append(Get(res.api_calls_by_model, model, <<>>), data))
                 @@ res.api_calls_by_model
    IN IF is_hook(model)
       THEN [res EXCEPT
               !.api_calls_by_model = calls,
               !.hooks.prompt.count = @ + 1,
               !.hooks.prompt.input_tokens = @ + data.input_tokens + data.cache_read,
               !.hooks.prompt.output_tokens = @ + data.output_tokens]
       ELSE [res EXCEPT
               !.api_calls_by_model = calls,
               !.main_agent.api_calls = @ + 1,
               !.main_agent.input_tokens = @ + data.input_tokens,
               !.main_agent.output_tokens = @ + data.output_tokens,
               !.main_agent.cache_creation = @ + data.cache_creation + data.cache_read,
               !.main_agent.models =
                   (model :> Get(res.main_agent.models, model, 0) + 1)
                   @@ res.main_agent.models]

\* one iteration of "for req_id, data in seen_request_ids.items()"
hooks_categorize(res, data) ==
    LET model == data.model
        calls == (model :> Append(Get(res.api_calls_by_model, model, <<>>), data))
                 @@ res.api_calls_by_model
    IN IF is_hook(model)
       THEN [res EXCEPT
               !.api_calls_by_model = calls,
               !.hooks.prompt.count = @ + 1,
               !.hooks.prompt.input_tokens = @ + data.input_tokens + data.cache_read,
               !.hooks.prompt.output_tokens = @ + data.output_tokens]
       ELSE [res EXCEPT
               !.api_calls_by_model = calls,
               !.main_agent.api_calls = @ + 1,
               !.main_agent.input_tokens = @ + data.input_tokens,
               !.main_agent.output_tokens = @ + data.output_tokens,
               !.main_agent.cache_creation = @ + data.cache_creation,
               !.main_agent.cache_read = @ + data.cache_read,
               !.main_agent.models =
                   (model :> Get(res.main_agent.models, model, 0) + 1)
                   @@ res.main_agent.models]

\* ---------------------------------------------------- analyze-session.py
SessionResult(ents) ==
    [entry_count |-> Len(ents),
     messages |-> <<>>,
     totals |-> [input_tokens |-> 0, output_tokens |-> 0,
                 cache_creation_input_tokens |-> 0,
                 cache_read_input_tokens |-> 0, thinking_tokens |-> 0],
     by_request |-> <<>>,
     user_prompts |-> <<>>,
     api_calls |-> 0,
     tool_uses |-> <<>>,
     thinking_blocks |-> 0]

\* the default factory of by_request
ZeroUsage ==
    [input_tokens |-> 0, output_tokens |-> 0,
     cache_creation_input_tokens |-> 0, cache_read_input_tokens |-> 0]

\* previews as long as those of analyze-hooks
session_user_prompts_200(prompts, entry) ==
    IF Get(entry, "type", None) = "user"
    THEN LET msg == Get(entry, "message", <<>>)
             content == Get(msg, "content", StrContent(<<>>))
         IN IF IsObject(msg) /\ content.kind = "str" /\ content.v # <<>>
            THEN Append(prompts, Prefix(content.v, 200))
            ELSE prompts
    ELSE prompts

\* "Track user prompts": the previews after one entry
session_user_prompts(prompts, entry) ==
    IF Get(entry, "type", None) = "user"
    THEN LET msg == Get(entry, "message", <<>>)
             content == Get(msg, "content", StrContent(<<>>))
         IN IF IsObject(msg) /\ content.kind = "str" /\ content.v # <<>>
            THEN Append(prompts, Prefix(content.v, 100))
            ELSE prompts
    ELSE prompts

\* a count of the request ids whose record carries usage
session_count_call_usage(seen, api_calls, entry) ==
    IF Get(entry, "type", None) = "assistant"
    THEN LET request_id == Get(entry, "requestId", "")
             usage == Get(Get(entry, "message", <<>>), "usage", <<>>)
         IN IF request_id # "" /\ request_id \notin seen /\ DOMAIN usage # {}
            THEN <<seen \cup {request_id}, api_calls + 1>>
            ELSE <<seen, api_calls>>
    ELSE <<seen, api_calls>>

\* "Count unique API calls": <<seen_request_ids, api_calls>> after one entry
session_count_call(seen, api_calls, entry) ==
    IF Get(entry, "type", None) = "assistant"
    THEN LET request_id == Get(entry, "requestId", "")
         IN IF request_id # "" /\ request_id \notin seen
            THEN <<seen \cup {request_id}, api_calls + 1>>
            ELSE <<seen, api_calls>>
    ELSE <<seen, api_calls>>

\* a fold that adds every snapshot value to the total instead of the increase
session_fold_key_sum(acc, usage, key) ==
    LET val == Get(usage, key, 0)
        tot == acc[1]
        req_data == acc[2]
    IN IF val > req_data[key]
       THEN <<[tot EXCEPT ![key] = @ + val],
              [req_data EXCEPT ![key] = val]>>
       ELSE acc

\* a fold that takes every differing value, lower ones included
session_fold_key_any(acc, usage, key) ==
    LET val == Get(usage, key, 0)
        tot == acc[1]
        req_data == acc[2]
    IN IF val # req_data[key]
       THEN <<[tot EXCEPT ![key] = @ + (val - req_data[key])],
              [req_data EXCEPT ![key] = val]>>
       ELSE acc

\* a fold that takes the first non-zero value only
session_fold_key_first(acc, usage, key) ==
    LET val == Get(usage, key, 0)
        tot == acc[1]
        req_data == acc[2]
    IN IF val > req_data[key] /\ req_data[key] = 0
       THEN <<[tot EXCEPT ![key] = @ + (val - req_data[key])],
              [req_data EXCEPT ![key] = val]>>
       ELSE acc

\* the body of "for key in [...]" for one key: <<totals, req_data>> after it
session_fold_key(acc, usage, key) ==
    LET val == Get(usage, key, 0)
        tot == acc[1]
        req_data == acc[2]
    IN IF val > req_data[key]
       THEN <<[tot EXCEPT ![key] = @ + (val - req_data[key])],
              [req_data EXCEPT ![key] = val]>>
       ELSE acc

RECURSIVE session_fold_keys(_, _, _)
session_fold_keys(acc, usage, keys) ==
    IF keys = <<>> THEN acc
    ELSE session_fold_keys(session_fold_key(acc, usage, Head(keys)), usage, Tail(keys))

\* "Extract usage": <<totals, by_request>> after one entry
session_extract_usage(tot, by_request, entry) ==
    IF Get(entry, "type", None) = "assistant"
    THEN LET msg == Get(entry, "message", <<>>)
             request_id == Get(entry, "requestId", "")
             usage == Get(msg, "usage", <<>>)
         IN IF DOMAIN usage # {}
            THEN LET req_data == Get(by_request, request_id, ZeroUsage)
                     r == session_fold_keys(<<tot, req_data>>, usage, UsageKeys)
                 IN <<r[1], (request_id :> r[2]) @@ by_request>>
            ELSE <<tot, by_request>>
    ELSE <<tot, by_request>>

RECURSIVE CountType(_, _)
CountType(items, t) ==
    IF items = <<>> THEN 0
    ELSE (IF Get(Head(items), "type", None) = t THEN 1 ELSE 0) + CountType(Tail(items), t)

\* a count of the records that hold a thinking block
session_content_types_once(thinking, uses, entry) ==
    IF Get(entry, "type", None) = "assistant"
    THEN LET msg == Get(entry, "message", <<>>)
             content == Get(msg, "content", ListContent(<<>>))
         IN IF content.kind = "list"
            THEN <<thinking + (IF CountType(content.v, "thinking") > 0 THEN 1 ELSE 0),
                   uses \o ToolNames(content.v)>>
            ELSE <<thinking, uses>>
    ELSE <<thinking, uses>>

\* "Track content types": <<thinking_blocks, tool_uses>> after one entry
session_content_types(thinking, uses, entry) ==
    IF Get(entry, "type", None) = "assistant"
    THEN LET msg == Get(entry, "message", <<>>)
             content == Get(msg, "content", ListContent(<<>>))
         IN IF content.kind = "list"
            THEN <<thinking + CountType(content.v, "thinking"),
                   uses \o ToolNames(content.v)>>
            ELSE <<thinking, uses>>
    ELSE <<thinking, uses>>

\* ------------------------------------------------------------ exceptions
\* (the counters of the inputs are numbers, so max(...) and val > ... do not raise)
\* the exception one pass of the scan loop of analyze-hooks raises, or None
hooks_scan_raises(entry) ==
    IF ~IsObject(entry) THEN "AttributeError"          \* entry.get, line 99
    ELSE IF Get(entry, "type", None) # "assistant" THEN None
    ELSE LET msg == Get(entry, "message", <<>>)
             request_id == Get(entry, "requestId", "")
         IN IF ~IsObject(msg) THEN "AttributeError"    \* msg.get, line 116
            ELSE LET usage == Get(msg, "usage", <<>>)
                 IN IF DOMAIN usage # {} /\ request_id # ""
                    THEN IF ~IsObject(usage) THEN "AttributeError"   \* usage.get, line 129
                         ELSE None
                    ELSE None

\* the exception the uuid_map loop of analyze-session raises on one entry, or None
session_uuid_raises(entry) ==
    IF ~IsObject(entry) /\ entry.nonobject = "number"
    THEN "TypeError"                                   \* 'uuid' in entry, line 95
    ELSE None

\* the exception one pass of the scan loop of analyze-session raises, or None
session_scan_raises(entry) ==
    IF ~IsObject(entry) THEN "AttributeError"          \* entry.get, line 126
    ELSE IF Get(entry, "type", None) # "assistant" THEN None
    ELSE LET msg == Get(entry, "message", <<>>)
         IN IF ~IsObject(msg) THEN "AttributeError"    \* msg.get, line 147
            ELSE LET usage == Get(msg, "usage", <<>>)
                 IN IF DOMAIN usage # {}
                    THEN IF ~IsObject(usage) THEN "AttributeError"   \* usage.get, line 153
                         ELSE None
                    ELSE None

\* ------------------------------------------------ one pass of the scan loops
\* the body of "for entry in entries" of analyze-hooks.parse_session
hooks_scan(st, entry) ==
    [seen |-> hooks_track_request(st.seen, entry),
     res  |-> [st.res EXCEPT
                 !.user_prompts = hooks_user_prompts(@, entry),
                 !.tool_uses = hooks_tool_uses(@, entry)]]

\* the body of "for entry in entries" of analyze-session.parse_session
session_scan(st, entry) ==
    LET c == session_count_call(st.seen, st.res.api_calls, entry)
        u == session_extract_usage(st.res.totals, st.res.by_request, entry)
        t == session_content_types(st.res.thinking_blocks, st.res.tool_uses, entry)
    IN [seen |-> c[1],
        res  |-> [st.res EXCEPT
                    !.user_prompts = session_user_prompts(@, entry),
                    !.api_calls = c[2],
                    !.totals = u[1],
                    !.by_request = u[2],
                    !.thinking_blocks = t[1],
                    !.tool_uses = t[2]]]

\* ------------------------------------------------------------ calculate_cost
\* An amount of money is [hi, lo]: hi ten-thousandths of a dollar plus lo
\* millionths of a ten-thousandth, 0 <= lo < 1000000.  A rate is a number of
\* ten-thousandths of a dollar per million tokens, so that 15.0 is 150000 and
\* 0.3125 is 3125.  The amounts are the exact values; the rounding of the
\* floating-point operations is not represented.
Million == 1000000

Zero == [hi |-> 0, lo |-> 0]

Plus(x, y) ==
    [hi |-> x.hi + y.hi + ((x.lo + y.lo) \div Million),
     lo |-> (x.lo + y.lo) % Million]

\* t * rate / 1_000_000, computed without exceeding 32 bits
PerMillion(t, rate) ==
    LET tq == t \div Million
        tr == t % Million
        a == (tr \div 1000) * rate
        b == (tr % 1000) * rate
        low == (a % 1000) * 1000 + (b % Million)
    IN [hi |-> tq * rate + (a \div 1000) + (b \div Million) + (low \div Million),
        lo |-> low % Million]

\* a pricing table whose haiku cache-read rate is 0.25 instead of 0.025
pricing_shifted ==
    [opus   |-> [input |-> 150000, output |-> 750000, cache_read |-> 15000, cache_create |-> 187500],
     sonnet |-> [input |-> 30000, output |-> 150000, cache_read |-> 3000, cache_create |-> 37500],
     haiku  |-> [input |-> 2500, output |-> 12500, cache_read |-> 2500, cache_create |-> 3125]]

\* analyze-hooks.calculate_cost: pricing
pricing ==
    [opus   |-> [input |-> 150000, output |-> 750000, cache_read |-> 15000, cache_create |-> 187500],
     sonnet |-> [input |-> 30000, output |-> 150000, cache_read |-> 3000, cache_create |-> 37500],
     haiku  |-> [input |-> 2500, output |-> 12500, cache_read |-> 250, cache_create |-> 3125]]

\* a lookup that falls back to the cheapest tier
pricing_get_haiku(model) == Get(pricing, model, pricing["haiku"])

\* p = pricing.get(model, pricing['opus'])
pricing_get(model) == Get(pricing, model, pricing["opus"])

\* the four addends of analyze-hooks.calculate_cost, in the order they are added
hooks_cost_terms(toks, model) ==
    LET p == pricing_get(model)
    IN <<PerMillion(Get(toks, "input_tokens", 0), p["input"]),
         PerMillion(Get(toks, "output_tokens", 0), p["output"]),
         PerMillion(Get(toks, "cache_read", 0), p["cache_read"]),
         PerMillion(Get(toks, "cache_creation", 0), p["cache_create"])>>

hooks_calculate_cost(toks, model) ==
    LET c == hooks_cost_terms(toks, model)
    IN Plus(Plus(Plus(Plus(Zero, c[1]), c[2]), c[3]), c[4])

\* analyze-session.calculate_cost, Opus pricing
session_calculate_cost(tot) ==
    LET input_rate == 150000
        output_rate == 750000
        cache_read_rate == 15000
        cache_create_rate == 187500
    IN [input_cost |-> PerMillion(tot["input_tokens"], input_rate),
        output_cost |-> PerMillion(tot["output_tokens"], output_rate),
        cache_read_cost |-> PerMillion(tot["cache_read_input_tokens"], cache_read_rate),
        cache_create_cost |-> PerMillion(tot["cache_creation_input_tokens"], cache_create_rate),
        total_cost |->
            Plus(Plus(Plus(PerMillion(tot["input_tokens"], input_rate),
                           PerMillion(tot["output_tokens"], output_rate)),
                      PerMillion(tot["cache_read_input_tokens"], cache_read_rate)),
                 PerMillion(tot["cache_creation_input_tokens"], cache_create_rate))]

\* token counts given to the calculators
TokenValues == 0..MaxTok \cup {Million}

HooksTokens ==
    [{"input_tokens", "output_tokens", "cache_read", "cache_creation"} -> TokenValues]
    \cup [{"input_tokens", "output_tokens"} -> TokenValues]

SessionTotals ==
    {AllKeys(a, b, c, d) @@ [thinking_tokens |-> 0] :
        a \in TokenValues, b \in TokenValues, c \in TokenValues, d \in TokenValues}

Tiers == {"opus", "sonnet", "haiku", "Opus", "primary", "gpt-4", ""}

\* ------------------------------------------- parse_session as one function
RECURSIVE read_all(_)
read_all(file) ==
    IF file = <<>> THEN <<>>
    ELSE read_line(<<>>, Head(file)) \o read_all(Tail(file))

RECURSIVE hooks_scan_all(_, _)
hooks_scan_all(st, ents) ==
    IF ents = <<>> THEN st ELSE hooks_scan_all(hooks_scan(st, Head(ents)), Tail(ents))

RECURSIVE hooks_categorize_all(_, _, _)
hooks_categorize_all(res, seen, ids) ==
    IF ids = <<>> THEN res
    ELSE hooks_categorize_all(hooks_categorize(res, seen.val[Head(ids)]), seen, Tail(ids))

hooks_parse_session(file) ==
    LET ents == read_all(file)
        st == hooks_scan_all([seen |-> EmptyDict, res |-> HooksResult(ents)], ents)
    IN [seen |-> st.seen, res |-> hooks_categorize_all(st.res, st.seen, st.seen.keys)]

RECURSIVE session_scan_all(_, _)
session_scan_all(st, ents) ==
    IF ents = <<>> THEN st ELSE session_scan_all(session_scan(st, Head(ents)), Tail(ents))

session_parse_session(file) ==
    LET ents == read_all(file)
    IN session_scan_all([seen |-> {}, res |-> SessionResult(ents)], ents)

\* ---------------------------------------------------------- compare_sessions
\* the difference of two amounts: its sign and its magnitude
Cmp(x, y) ==
    IF x.hi # y.hi THEN (IF x.hi > y.hi THEN 1 ELSE -1)
    ELSE IF x.lo # y.lo THEN (IF x.lo > y.lo THEN 1 ELSE -1)
    ELSE 0

Less(x, y) ==
    IF x.lo >= y.lo THEN [hi |-> x.hi - y.hi, lo |-> x.lo - y.lo]
    ELSE [hi |-> x.hi - y.hi - 1, lo |-> x.lo + Million - y.lo]

Minus(x, y) ==
    [sign |-> Cmp(x, y),
     mag |-> IF Cmp(x, y) >= 0 THEN Less(x, y) ELSE Less(y, x)]

\* a signed amount plus an amount that is not negative
PlusAmount(d, m) ==
    IF d.sign >= 0
    THEN [sign |-> Cmp(Plus(d.mag, m), Zero), mag |-> Plus(d.mag, m)]
    ELSE Minus(m, d.mag)

\* "{x:.4f}": the number of ten-thousandths of a dollar shown, ties to even
Fixed4(m) ==
    IF m.lo * 2 > Million \/ (m.lo * 2 = Million /\ m.hi % 2 = 1) THEN m.hi + 1 ELSE m.hi

Abs(n) == IF n < 0 THEN -n ELSE n

\* analyze-hooks.py 293-303: comparisons
hooks_comparisons(b, t) ==
    <<<<"User prompts", Len(b.user_prompts), Len(t.user_prompts)>>,
      <<"API calls (main)", b.main_agent.api_calls, t.main_agent.api_calls>>,
      <<"Input tokens", b.main_agent.input_tokens, t.main_agent.input_tokens>>,
      <<"Output tokens", b.main_agent.output_tokens, t.main_agent.output_tokens>>,
      <<"Cache creation", b.main_agent.cache_creation, t.main_agent.cache_creation>>,
      <<"Cache read", b.main_agent.cache_read, t.main_agent.cache_read>>,
      <<"Prompt hooks", b.hooks.prompt.count, t.hooks.prompt.count>>,
      <<"Hook input tokens", b.hooks.prompt.input_tokens, t.hooks.prompt.input_tokens>>,
      <<"Hook output tokens", b.hooks.prompt.output_tokens, t.hooks.prompt.output_tokens>>>>

\* analyze-hooks.py 305-313: one printed row; diff_str is the colour and the
\* text, the text a sign character and the digits
hooks_row(c) ==
    LET label == c[1]
        base_val == c[2]
        test_val == c[3]
        diff == test_val - base_val
    IN [label |-> label, v1 |-> base_val, v2 |-> test_val, diff |-> diff,
        color |-> IF diff > 0 THEN "GREEN" ELSE IF diff < 0 THEN "RED" ELSE "DIM",
        diff_str |-> IF diff > 0 THEN [sign |-> "+", digits |-> diff]
                     ELSE IF diff < 0 THEN [sign |-> "-", digits |-> Abs(diff)]
                     ELSE [sign |-> "", digits |-> 0]]

\* analyze-hooks.py 281-328: what compare_sessions(baseline, test) prints
hooks_compare_sessions(b, t) ==
    LET comparisons == hooks_comparisons(b, t)
        base_cost == hooks_calculate_cost(b.main_agent, "opus")
        test_cost == hooks_calculate_cost(t.main_agent, "opus")
        hook_cost == hooks_calculate_cost(
                         [input_tokens |-> t.hooks.prompt.input_tokens,
                          output_tokens |-> t.hooks.prompt.output_tokens], "haiku")
    IN [rows |-> [i \in 1..Len(comparisons) |-> hooks_row(comparisons[i])],
        base_cost |-> base_cost, test_cost |-> test_cost, hook_cost |-> hook_cost,
        overhead |-> PlusAmount(Minus(test_cost, base_cost), hook_cost)]

\* analyze-session.py 268-276: metrics, with the transform of each
session_metrics ==
    <<<<"API calls", "api_calls", None>>,
      <<"User prompts", "user_prompts", "len">>,
      <<"Tool uses", "tool_uses", "len">>,
      <<"Input tokens", "input_tokens", None>>,
      <<"Output tokens", "output_tokens", None>>,
      <<"Cache creation", "cache_creation_input_tokens", None>>,
      <<"Cache read", "cache_read_input_tokens", None>>>>

\* analyze-session.py 279-287: the value of one metric in one summary
session_metric_value(m, data1, data) ==
    IF m[3] # None THEN Len(Get(data, m[2], <<>>))
    ELSE IF m[2] \in DOMAIN Get(data1, "totals", <<>>) THEN data["totals"][m[2]]
    ELSE Get(data, m[2], 0)

\* analyze-session.py 278-292: one printed row; str(diff) of a negative number
\* starts with its minus sign, str(0) is "0"
session_row(m, data1, data2) ==
    LET v1 == session_metric_value(m, data1, data1)
        v2 == session_metric_value(m, data1, data2)
        diff == v2 - v1
    IN [label |-> m[1], v1 |-> v1, v2 |-> v2, diff |-> diff,
        diff_str |-> IF diff > 0 THEN [sign |-> "+", digits |-> diff]
                     ELSE [sign |-> IF diff < 0 THEN "-" ELSE "", digits |-> Abs(diff)],
        color |-> IF diff > 0 THEN "RED" ELSE IF diff < 0 THEN "GREEN" ELSE "NC"]

\* analyze-session.py 294-299: the estimated-cost row
session_cost_row(data1, data2) ==
    LET cost1 == session_calculate_cost(data1.totals)
        cost2 == session_calculate_cost(data2.totals)
        diff == Minus(cost2.total_cost, cost1.total_cost)
    IN [label |-> "Estimated cost", v1 |-> cost1.total_cost, v2 |-> cost2.total_cost,
        diff |-> diff,
        diff_str |-> IF diff.sign > 0 THEN [sign |-> "+", digits |-> Fixed4(diff.mag)]
                     ELSE [sign |-> "-", digits |-> Fixed4(diff.mag)],
        color |-> IF diff.sign > 0 THEN "RED" ELSE IF diff.sign < 0 THEN "GREEN" ELSE "NC"]

\* analyze-session.py 256-301: what compare_sessions(data1, data2) prints
session_compare_sessions(data1, data2) ==
    [rows |-> [i \in 1..Len(session_metrics) |-> session_row(session_metrics[i], data1, data2)],
     cost |-> session_cost_row(data1, data2)]

\* the lines of the sessions that are compared
FamCompare ==
    {GoodLine([type |-> "user", message |-> [content |-> StrContent(<<"h","i">>)]]),
     Assistant("r1", Msg(Opus3, AllKeys(1, 2, 1, 2))),
     Assistant("r1", [model |-> Opus3, usage |-> AllKeys(MaxTok, 2, 1, 2),
                      content |-> ListContent(<<[type |-> "tool_use", name |-> "Bash"]>>)]),
     Assistant("r2", Msg(Haiku3, AllKeys(1, 1, 0, 1)))}

CompareFiles == SeqsUpTo(FamCompare, MaxCompare)

\* the summaries parse_session returns for these sessions
Summaries(script) ==
    IF script = "hooks" THEN {hooks_parse_session(f).res : f \in CompareFiles}
    ELSE {session_parse_session(f).res : f \in CompareFiles}

\* ------------------------------------------------------------------ actions
InitParse ==
    /\ prog \in {"hooks", "session"}
    /\ pc = "read"
    /\ \/ exists = TRUE /\ lines \in Files
       \/ exists = FALSE /\ lines = <<>>
    /\ raised = None
    /\ baseline = None /\ test = None /\ printed = <<>>
    /\ pos = 1
    /\ entries = <<>>
    /\ seen_request_ids = {}
    /\ result = <<>>
    /\ tokens = <<>>
    /\ tier = None
    /\ cost = None

Unused == UNCHANGED <<prog, lines, tokens, tier, cost, exists, raised, baseline, test, printed>>

\* analyze-hooks.py 62: open(session_path) of a file that does not exist
HooksOpenFails ==
    /\ prog = "hooks" /\ pc = "read" /\ ~exists
    /\ pc' = "error"
    /\ raised' = "FileNotFoundError"
    /\ UNCHANGED <<prog, lines, pos, entries, seen_request_ids, result, tokens, tier, cost,
                   exists, baseline, test, printed>>

\* analyze-hooks.py 62-67: one line of the file
HooksReadLine ==
    /\ prog = "hooks" /\ pc = "read" /\ exists /\ pos <= Len(lines)
    /\ entries' = read_line(entries, lines[pos])
    /\ pos' = pos + 1
    /\ UNCHANGED <<pc, seen_request_ids, result>>
    /\ Unused

\* analyze-hooks.py 69-96: the file is exhausted, result and seen_request_ids are built
HooksBuildResult ==
    /\ prog = "hooks" /\ pc = "read" /\ exists /\ pos > Len(lines)
    /\ result' = HooksResult(entries)
    /\ seen_request_ids' = EmptyDict
    /\ pc' = "scan"
    /\ pos' = 1
    /\ UNCHANGED entries
    /\ Unused

\* analyze-hooks.py 98-141: one entry
HooksScanEntry ==
    /\ prog = "hooks" /\ pc = "scan" /\ pos <= Len(entries)
    /\ hooks_scan_raises(entries[pos]) = None
    /\ LET st == hooks_scan([seen |-> seen_request_ids, res |-> result], entries[pos])
       IN /\ seen_request_ids' = st.seen
          /\ result' = st.res
    /\ pos' = pos + 1
    /\ UNCHANGED <<pc, entries>>
    /\ Unused

\* analyze-hooks.py 98-141: one entry, on which the loop body raises
HooksScanRaises ==
    /\ prog = "hooks" /\ pc = "scan" /\ pos <= Len(entries)
    /\ hooks_scan_raises(entries[pos]) # None
    /\ pc' = "error"
    /\ raised' = hooks_scan_raises(entries[pos])
    /\ UNCHANGED <<prog, lines, pos, entries, seen_request_ids, result, tokens, tier, cost,
                   exists, baseline, test, printed>>

\* analyze-hooks.py 98, 144: the entries are exhausted
HooksScanDone ==
    /\ prog = "hooks" /\ pc = "scan" /\ pos > Len(entries)
    /\ pc' = "categorize"
    /\ pos' = 1
    /\ UNCHANGED <<entries, seen_request_ids, result>>
    /\ Unused

\* analyze-hooks.py 144-165: one request id
HooksCategorize ==
    /\ prog = "hooks" /\ pc = "categorize" /\ pos <= Len(seen_request_ids.keys)
    /\ result' = hooks_categorize(result, seen_request_ids.val[seen_request_ids.keys[pos]])
    /\ pos' = pos + 1
    /\ UNCHANGED <<pc, entries, seen_request_ids>>
    /\ Unused

\* analyze-hooks.py 167: return result
HooksReturn ==
    /\ prog = "hooks" /\ pc = "categorize" /\ pos > Len(seen_request_ids.keys)
    /\ pc' = "done"
    /\ UNCHANGED <<pos, entries, seen_request_ids, result>>
    /\ Unused

\* analyze-session.py 85: open(session_path) of a file that does not exist
SessionOpenFails ==
    /\ prog = "session" /\ pc = "read" /\ ~exists
    /\ pc' = "error"
    /\ raised' = "FileNotFoundError"
    /\ UNCHANGED <<prog, lines, pos, entries, seen_request_ids, result, tokens, tier, cost,
                   exists, baseline, test, printed>>

\* analyze-session.py 85-90: one line of the file
SessionReadLine ==
    /\ prog = "session" /\ pc = "read" /\ exists /\ pos <= Len(lines)
    /\ entries' = read_line(entries, lines[pos])
    /\ pos' = pos + 1
    /\ UNCHANGED <<pc, seen_request_ids, result>>
    /\ Unused

\* analyze-session.py 92-123: the file is exhausted, result and seen_request_ids are built
SessionBuildResult ==
    /\ prog = "session" /\ pc = "read" /\ exists /\ pos > Len(lines)
    /\ \A i \in 1..Len(entries) : session_uuid_raises(entries[i]) = None
    /\ result' = SessionResult(entries)
    /\ seen_request_ids' = {}
    /\ pc' = "scan"
    /\ pos' = 1
    /\ UNCHANGED entries
    /\ Unused

\* analyze-session.py 92-96: the uuid_map loop raises on an entry
SessionUuidRaises ==
    /\ prog = "session" /\ pc = "read" /\ exists /\ pos > Len(lines)
    /\ \E i \in 1..Len(entries) : session_uuid_raises(entries[i]) # None
    /\ pc' = "error"
    /\ raised' = session_uuid_raises(
                     entries[CHOOSE i \in 1..Len(entries) :
                                /\ session_uuid_raises(entries[i]) # None
                                /\ \A k \in 1..(i - 1) : session_uuid_raises(entries[k]) = None])
    /\ UNCHANGED <<prog, lines, pos, entries, seen_request_ids, result, tokens, tier, cost,
                   exists, baseline, test, printed>>

\* analyze-session.py 125-169: one entry, on which the loop body raises
SessionScanRaises ==
    /\ prog = "session" /\ pc = "scan" /\ pos <= Len(entries)
    /\ session_scan_raises(entries[pos]) # None
    /\ pc' = "error"
    /\ raised' = session_scan_raises(entries[pos])
    /\ UNCHANGED <<prog, lines, pos, entries, seen_request_ids, result, tokens, tier, cost,
                   exists, baseline, test, printed>>

\* analyze-session.py 125-169: one entry
SessionScanEntry ==
    /\ prog = "session" /\ pc = "scan" /\ pos <= Len(entries)
    /\ session_scan_raises(entries[pos]) = None
    /\ LET st == session_scan([seen |-> seen_request_ids, res |-> result], entries[pos])
       IN /\ seen_request_ids' = st.seen
          /\ result' = st.res
    /\ pos' = pos + 1
    /\ UNCHANGED <<pc, entries>>
    /\ Unused

\* analyze-session.py 171: return result
SessionReturn ==
    /\ prog = "session" /\ pc = "scan" /\ pos > Len(entries)
    /\ pc' = "done"
    /\ UNCHANGED <<pos, entries, seen_request_ids, result>>
    /\ Unused

InitCost ==
    /\ prog \in {"hooks", "session"}
    /\ pc = "call"
    /\ IF prog = "hooks"
       THEN tokens \in HooksTokens /\ tier \in Tiers
       ELSE tokens \in SessionTotals /\ tier = None
    /\ cost = None
    /\ exists = TRUE
    /\ raised = None
    /\ baseline = None /\ test = None /\ printed = <<>>
    /\ lines = <<>>
    /\ pos = 0
    /\ entries = <<>>
    /\ seen_request_ids = {}
    /\ result = <<>>

\* analyze-hooks.py 170-187: calculate_cost(tokens, model)
HooksCalculateCost ==
    /\ prog = "hooks" /\ pc = "call"
    /\ cost' = hooks_calculate_cost(tokens, tier)
    /\ pc' = "costed"
    /\ UNCHANGED <<prog, lines, pos, entries, seen_request_ids, result, tokens, tier,
                   exists, raised, baseline, test, printed>>

\* analyze-session.py 174-199: calculate_cost(totals)
SessionCalculateCost ==
    /\ prog = "session" /\ pc = "call"
    /\ cost' = session_calculate_cost(tokens)
    /\ pc' = "costed"
    /\ UNCHANGED <<prog, lines, pos, entries, seen_request_ids, result, tokens, tier,
                   exists, raised, baseline, test, printed>>

InitCompare ==
    /\ prog \in {"hooks", "session"}
    /\ pc = "compare"
    /\ baseline \in Summaries(prog)
    /\ test \in Summaries(prog)
    /\ printed = <<>>
    /\ exists = TRUE
    /\ raised = None
    /\ lines = <<>>
    /\ pos = 0
    /\ entries = <<>>
    /\ seen_request_ids = {}
    /\ result = <<>>
    /\ tokens = <<>>
    /\ tier = None
    /\ cost = None

\* analyze-hooks.py 281-328: compare_sessions(baseline, test)
HooksCompareSessions ==
    /\ prog = "hooks" /\ pc = "compare"
    /\ printed' = hooks_compare_sessions(baseline, test)
    /\ pc' = "compared"
    /\ UNCHANGED <<prog, lines, pos, entries, seen_request_ids, result, tokens, tier, cost,
                   exists, raised, baseline, test>>

\* analyze-session.py 256-301: compare_sessions(data1, data2)
SessionCompareSessions ==
    /\ prog = "session" /\ pc = "compare"
    /\ printed' = session_compare_sessions(baseline, test)
    /\ pc' = "compared"
    /\ UNCHANGED <<prog, lines, pos, entries, seen_request_ids, result, tokens, tier, cost,
                   exists, raised, baseline, test>>

Init == InitParse \/ InitCost \/ InitCompare

Next ==
    \/ HooksReadLine
    \/ HooksBuildResult
    \/ HooksScanEntry
    \/ HooksScanDone
    \/ HooksCategorize
    \/ HooksReturn
    \/ SessionReadLine
    \/ SessionBuildResult
    \/ SessionScanEntry
    \/ SessionReturn
    \/ HooksOpenFails
    \/ HooksScanRaises
    \/ SessionOpenFails
    \/ SessionUuidRaises
    \/ SessionScanRaises
    \/ HooksCalculateCost
    \/ SessionCalculateCost
    \/ HooksCompareSessions
    \/ SessionCompareSessions

Spec == Init /\ [][Next]_vars

\* ------------------------------------------------------------ the claims
\* vocabulary of the claims, stated over the parsed records only
IsSnapshot(e) ==
    /\ Get(e, "type", None) = "assistant"
    /\ DOMAIN Get(Get(e, "message", <<>>), "usage", <<>>) # {}

SnapId(e) == Get(e, "requestId", "")

SnapValue(e, k) == Get(Get(Get(e, "message", <<>>), "usage", <<>>), k, 0)

\* indices of the snapshots of request id rid among the first n entries
SnapsOf(rid, n) == {i \in 1..n : IsSnapshot(entries[i]) /\ SnapId(entries[i]) = rid}

MaxOf(S) == CHOOSE m \in S : \A v \in S : m >= v

MaxSnap(rid, k, n) == MaxOf({SnapValue(entries[i], k) : i \in SnapsOf(rid, n)})

\* the counter of analyze-hooks that holds usage key UsageKeys[j]
HooksKeys == <<"input_tokens", "output_tokens", "cache_creation", "cache_read">>

Scanned == prog \in {"hooks", "session"} /\ pc = "done"

\* C1: once the whole log is scanned, each of the four counters stored for a
\* non-empty request id that carried usage is the maximum of that counter over
\* all snapshots of that id (absent fields count 0), in seen_request_ids of
\* analyze-hooks and in by_request of analyze-session.
C1_MaxPerRequest ==
    Scanned =>
        \A rid \in {SnapId(entries[i]) : i \in 1..Len(entries)} \ {""} :
            SnapsOf(rid, Len(entries)) # {} =>
                \A j \in 1..4 :
                    IF prog = "hooks"
                    THEN /\ DictHas(seen_request_ids, rid)
                         /\ seen_request_ids.val[rid][HooksKeys[j]]
                                = MaxSnap(rid, UsageKeys[j], Len(entries))
                    ELSE /\ rid \in DOMAIN result.by_request
                         /\ result.by_request[rid][UsageKeys[j]]
                                = MaxSnap(rid, UsageKeys[j], Len(entries))

\* the snapshots 5, 5, 12, 8 of one id were scanned by analyze-hooks and 12 is stored
C1_Witness ==
    /\ prog = "hooks" /\ pc = "done"
    /\ lines = <<Snap("r1", 5), Snap("r1", 5), Snap("r1", 12), Snap("r1", 8)>>
    /\ seen_request_ids.val["r1"].input_tokens = 12

\* C2: in analyze-session, after every processed record each of the four
\* session totals equals the sum, over the request ids present in by_request,
\* of the value stored for that id.
C2_TotalsAreSumOfMaxima ==
    (prog = "session" /\ pc \in {"scan", "done"}) =>
        \A j \in 1..4 :
            result.totals[UsageKeys[j]]
                = SumOver(DOMAIN result.by_request,
                          [id \in DOMAIN result.by_request |->
                              result.by_request[id][UsageKeys[j]]])

\* two ids, one of them with a repeated snapshot, have been accumulated
C2_Witness ==
    /\ prog = "session" /\ pc = "done"
    /\ {"r1", "r2"} \subseteq DOMAIN result.by_request
    /\ Len(entries) > Cardinality(DOMAIN result.by_request)
    /\ result.totals.input_tokens
           = result.by_request["r1"].input_tokens + result.by_request["r2"].input_tokens
    /\ result.by_request["r1"].input_tokens > 0
    /\ result.by_request["r2"].input_tokens > 0

\* a step of the scan loop of either script
ScanStep == pc = "scan" /\ pos <= Len(entries) /\ pos' = pos + 1

\* the counters stored for request id rid, as a tuple in the order of UsageKeys
Stored(sn, res, rid) ==
    IF prog = "hooks"
    THEN [j \in 1..4 |-> DictGet(sn, rid, [k \in {HooksKeys[i] : i \in 1..4} |-> 0])[HooksKeys[j]]]
    ELSE [j \in 1..4 |-> Get(res.by_request, rid, ZeroUsage)[UsageKeys[j]]]

HasStored(sn, res, rid) ==
    IF prog = "hooks" THEN DictHas(sn, rid) ELSE rid \in DOMAIN res.by_request

C3_Step ==
    ScanStep =>
        /\ \A rid \in RequestIds :
              /\ HasStored(seen_request_ids, result, rid)
                    => HasStored(seen_request_ids', result', rid)
              /\ \A j \in 1..4 :
                    Stored(seen_request_ids', result', rid)[j]
                        >= Stored(seen_request_ids, result, rid)[j]
        /\ prog = "session" =>
              \A j \in 1..4 : result'.totals[UsageKeys[j]] >= result.totals[UsageKeys[j]]
        /\ IsSnapshot(entries[pos]) =>
              \A j \in 1..4 :
                 LET rid == SnapId(entries[pos])
                 IN (/\ HasStored(seen_request_ids, result, rid)
                     /\ SnapValue(entries[pos], UsageKeys[j])
                            <= Stored(seen_request_ids, result, rid)[j])
                    => /\ Stored(seen_request_ids', result', rid)[j]
                             = Stored(seen_request_ids, result, rid)[j]
                       /\ prog = "session" =>
                             result'.totals[UsageKeys[j]] = result.totals[UsageKeys[j]]

\* C3: a snapshot whose value for a counter is not above the value stored for
\* its request id leaves the stored counter and the session total of that
\* counter unchanged; every stored counter and every session total is
\* non-decreasing from one processed record to the next.
C3_NeverSubtract == [][C3_Step]_vars

\* analyze-session has just processed a snapshot lower than the stored value
C3_Witness ==
    /\ prog = "session" /\ pc = "scan" /\ pos > 1
    /\ IsSnapshot(entries[pos - 1])
    /\ SnapId(entries[pos - 1]) = "r1"
    /\ SnapValue(entries[pos - 1], "input_tokens") < result.by_request["r1"].input_tokens
    /\ result.totals.input_tokens = result.by_request["r1"].input_tokens

Permuted(file, p) == [i \in 1..Len(file) |-> file[p[i]]]

\* C4: a log whose records are a permutation of the scanned log gives the same
\* four counters for every request id and the same four session totals.
C4_OrderIndependent ==
    Scanned =>
        \A p \in Permutations(1..Len(lines)) :
            LET other == Permuted(lines, p)
            IN IF prog = "session"
               THEN LET r == session_parse_session(other).res
                    IN /\ r.by_request = result.by_request
                       /\ r.totals = result.totals
               ELSE LET sn == hooks_parse_session(other).seen
                    IN /\ DOMAIN sn.val = DOMAIN seen_request_ids.val
                       /\ \A rid \in DOMAIN sn.val :
                             Stored(sn, <<>>, rid) = Stored(seen_request_ids, <<>>, rid)

\* a log where an id's value went down, so that another order ends on another value
C4_Witness ==
    /\ prog = "session" /\ pc = "done"
    /\ \E i, j \in 1..Len(entries) :
          /\ i < j
          /\ IsSnapshot(entries[i]) /\ IsSnapshot(entries[j])
          /\ SnapId(entries[i]) = "r2" /\ SnapId(entries[j]) = "r2"
          /\ SnapValue(entries[i], "output_tokens") > SnapValue(entries[j], "output_tokens")
          /\ SnapValue(entries[j], "output_tokens") > 0
    /\ result.totals.output_tokens = MaxTok

\* C5: every snapshot with an empty or absent request id adds its own counter
\* values to the session totals in full, whatever earlier empty-id snapshots
\* reported; the snapshots with an id add the maximum per id.
C5_EmptyIdCountedInFull ==
    (prog = "session" /\ pc \in {"scan", "done"}) =>
        \A j \in 1..4 :
            LET named == DOMAIN result.by_request \ {""}
                unnamed == SnapsOf("", pos - 1)
            IN result.totals[UsageKeys[j]]
                 = SumOver(named, [id \in named |-> result.by_request[id][UsageKeys[j]]])
                   + SumOver(unnamed,
                             [i \in unnamed |-> SnapValue(entries[i], UsageKeys[j])])

\* "contains haiku in any letter case", position by position
HaikuAnyCase(m) ==
    \E i \in 1..(Len(m) - 4) :
        \A j \in 1..5 :
            m[i + j - 1] \in {<<"h","a","i","k","u">>[j], <<"H","A","I","K","U">>[j]}

\* the request ids analyze-hooks reconciles: non-empty, with a snapshot
Reconciled == {rid \in RequestIds \ {""} : SnapsOf(rid, Len(entries)) # {}}

FirstSnap(rid) ==
    entries[CHOOSE i \in SnapsOf(rid, Len(entries)) :
                \A k \in SnapsOf(rid, Len(entries)) : i <= k]

\* the model string of the first snapshot of rid
FirstModel(rid) == Get(Get(FirstSnap(rid), "message", <<>>), "model", Unknown)

Lightweight == {rid \in Reconciled : HaikuAnyCase(FirstModel(rid))}

Primary == Reconciled \ Lightweight

\* sum over the calls of S of the stored counter named k
SumCalls(S, k) == SumOver(S, [rid \in S |-> seen_request_ids.val[rid][k]])

HooksDone == prog = "hooks" /\ pc = "done"

MainAgentSums ==
    /\ result.main_agent.input_tokens = SumCalls(Primary, "input_tokens")
    /\ result.main_agent.output_tokens = SumCalls(Primary, "output_tokens")
    /\ result.main_agent.cache_creation = SumCalls(Primary, "cache_creation")
    /\ result.main_agent.cache_read = SumCalls(Primary, "cache_read")

\* C6 as stated: both categories hold the four counters summed separately, the
\* hook input total being the sum of input_tokens alone.
C6_FourSumsPerCategory ==
    HooksDone =>
        /\ MainAgentSums
        /\ result.hooks.prompt.input_tokens = SumCalls(Lightweight, "input_tokens")
        /\ result.hooks.prompt.output_tokens = SumCalls(Lightweight, "output_tokens")
        /\ Get(result.hooks.prompt, "cache_creation", 0)
              = SumCalls(Lightweight, "cache_creation")
        /\ Get(result.hooks.prompt, "cache_read", 0) = SumCalls(Lightweight, "cache_read")

\* C6 amended: the main-agent category holds the four counters summed
\* separately; the hook category holds two totals only, input_tokens being the
\* sum of input_tokens plus cache_read and output_tokens the sum of
\* output_tokens, and the cache-creation tokens of hook calls are in no total.
C6_SumsAsAccumulated ==
    HooksDone =>
        /\ MainAgentSums
        /\ result.hooks.prompt.input_tokens
              = SumCalls(Lightweight, "input_tokens") + SumCalls(Lightweight, "cache_read")
        /\ result.hooks.prompt.output_tokens = SumCalls(Lightweight, "output_tokens")
        /\ DOMAIN result.hooks.prompt = {"count", "input_tokens", "output_tokens"}

\* a hook call and a main-agent call, each with four non-zero counters, were categorized
C6_Witness ==
    /\ HooksDone
    /\ Lightweight # {} /\ Primary # {}
    /\ \A rid \in Reconciled :
          \A j \in 1..4 : seen_request_ids.val[rid][HooksKeys[j]] > 0
    /\ result.main_agent.cache_read > result.main_agent.cache_creation
    /\ result.hooks.prompt.input_tokens > SumCalls(Lightweight, "input_tokens")

\* C7: a reconciled call keeps the model string of the first usage-bearing
\* snapshot of its request id, and is counted as hook exactly when that string
\* contains "haiku" in any letter case, as main agent otherwise.
C7_ClassifiedByFirstModel ==
    HooksDone =>
          /\ is_hook(Haiku3) /\ ~is_hook(Opus3)
          /\ \A rid \in Reconciled : seen_request_ids.val[rid].model = FirstModel(rid)
          /\ result.hooks.prompt.count = Cardinality(Lightweight)
          /\ result.main_agent.api_calls = Cardinality(Primary)
          /\ \A m \in DOMAIN result.main_agent.models : ~HaikuAnyCase(m)

\* a call first seen with an upper-case haiku model and later with an opus
\* model was counted as hook
C7_Witness ==
    /\ HooksDone
    /\ "r1" \in Reconciled
    /\ FirstModel("r1") = HaikuUpper
    /\ \E i \in SnapsOf("r1", Len(entries)) :
          Get(Get(entries[i], "message", <<>>), "model", Unknown) = Opus3
    /\ result.hooks.prompt.count = 1
    /\ result.main_agent.api_calls = 0

\* the pricing table of the cost calculator: dollars per million tokens, in
\* ten-thousandths
RateTable ==
    [opus   |-> <<150000, 750000, 15000, 187500>>,
     sonnet |-> <<30000, 150000, 3000, 37500>>,
     haiku  |-> <<2500, 12500, 250, 3125>>]

\* tokens * rate / 1,000,000 for the token counts of TokenValues
Amount(t, rate) ==
    IF t = Million THEN [hi |-> rate, lo |-> 0]
    ELSE [hi |-> (t * rate) \div Million, lo |-> (t * rate) % Million]

\* the token counts in the order input, output, cache read, cache create
HooksCounts(toks) ==
    <<Get(toks, "input_tokens", 0), Get(toks, "output_tokens", 0),
      Get(toks, "cache_read", 0), Get(toks, "cache_creation", 0)>>

SessionCounts(tot) ==
    <<tot.input_tokens, tot.output_tokens,
      tot.cache_read_input_tokens, tot.cache_creation_input_tokens>>

Amounts(counts, rates) == [j \in 1..4 |-> Amount(counts[j], rates[j])]

Total(amounts) == Plus(Plus(amounts[1], amounts[2]), Plus(amounts[3], amounts[4]))

Costed == pc = "costed"

C9_FallbackPricing ==
    (Costed /\ prog = "hooks" /\ tier \notin {"opus", "sonnet", "haiku"}) =>
        /\ cost = hooks_calculate_cost(tokens, "opus")
        /\ cost = Total(Amounts(HooksCounts(tokens), RateTable["opus"]))

\* an unknown tier was priced, with every counter positive
C9_Witness ==
    /\ Costed /\ prog = "hooks" /\ tier = "gpt-4"
    /\ HooksCounts(tokens) = <<1, MaxTok, Million, 1>>
    /\ cost = Plus([hi |-> 15000, lo |-> 0],
                   PerMillion(1, 150000 + 187500 + MaxTok * 750000))

\* the lines of a file that parse, in file order
Parsable(file) == SelectSeq(file, LAMBDA l : l.parses)

\* C10: entry_count is the number of lines that parse, the parsed records are
\* kept in file order, and the summary is the summary of the file without its
\* unparsable lines; a 4-line file whose line 2 is invalid has entry_count 3.
C10_MalformedLinesDropped ==
    Scanned =>
        /\ result.entry_count = Cardinality({i \in 1..Len(lines) : lines[i].parses})
        /\ entries = [i \in 1..Len(Parsable(lines)) |-> Parsable(lines)[i].value]
        /\ result = (IF prog = "hooks"
                     THEN hooks_parse_session(Parsable(lines)).res
                     ELSE session_parse_session(Parsable(lines)).res)
        /\ (Len(lines) = 4 /\ ~lines[2].parses
              /\ \A i \in {1, 3, 4} : lines[i].parses) => result.entry_count = 3

\* the 4-line file with an invalid second line was summarised with 3 entries
C10_Witness ==
    /\ prog = "session" /\ pc = "done"
    /\ Len(lines) = 4 /\ ~lines[2].parses
    /\ result.entry_count = 3
    /\ Len(result.user_prompts) = 1
    /\ result.totals.input_tokens = 5

\* C11: a run aborts only when the file does not exist; every file that can be
\* opened is scanned to the end whatever its lines hold, and a missing file
\* ends the run with a not-found error, never with a summary.
C11_OnlyMissingFileAborts ==
    /\ pc = "error" => (~exists /\ raised = "FileNotFoundError")
    /\ ~exists => pc \in {"read", "error"}


\* what a printed row shows: the sign character of its difference together with
\* the colour the script gives to that direction
Shown(row, script) ==
    LET up == IF script = "hooks" THEN "GREEN" ELSE "RED"
        down == IF script = "hooks" THEN "RED" ELSE "GREEN"
        same == IF script = "hooks" THEN "DIM" ELSE "NC"
    IN IF row.diff_str.sign = "+" /\ row.color = up THEN "increase"
       ELSE IF row.diff_str.sign = "-" /\ row.color = down THEN "decrease"
       ELSE IF row.diff_str.sign = "" /\ row.color = same THEN "unchanged"
       ELSE "none"

SignClass(n) == IF n > 0 THEN "increase" ELSE IF n < 0 THEN "decrease" ELSE "unchanged"

Compared == pc = "compared"

\* C12: every row that compare_sessions prints, the estimated-cost row of
\* analyze-session included, has diff = test - baseline and is shown as an
\* increase exactly when diff > 0, as a decrease exactly when diff < 0 and as
\* unchanged exactly when diff = 0.
C12_DiffSignEveryRow ==
    Compared =>
        /\ \A i \in DOMAIN printed.rows :
              /\ printed.rows[i].diff = printed.rows[i].v2 - printed.rows[i].v1
              /\ Shown(printed.rows[i], prog) = SignClass(printed.rows[i].diff)
        /\ prog = "session" =>
              /\ printed.cost.diff = Minus(session_calculate_cost(test.totals).total_cost,
                                           session_calculate_cost(baseline.totals).total_cost)
              /\ Shown(printed.cost, prog) = SignClass(printed.cost.diff.sign)


\* the user-kind record of a line whose message content is a string
Textual(line) ==
    /\ line.parses
    /\ IsObject(line.value)
    /\ Get(line.value, "type", None) = "user"
    /\ "message" \in DOMAIN line.value
    /\ IsObject(line.value.message)
    /\ "content" \in DOMAIN line.value.message
    /\ line.value.message.content.kind = "str"

TextOf(line) == line.value.message.content.v

First(text, n) == [i \in 1..(IF Len(text) < n THEN Len(text) ELSE n) |-> text[i]]

\* the texts of the previews held in user_prompts
PreviewTexts ==
    IF prog = "hooks"
    THEN [i \in 1..Len(result.user_prompts) |-> result.user_prompts[i].content]
    ELSE result.user_prompts

UserRecords == SelectSeq(lines, Textual)

NonEmptyUserRecords == SelectSeq(lines, LAMBDA l : Textual(l) /\ TextOf(l) # <<>>)

PreviewLength == IF prog = "hooks" THEN 200 ELSE 100

\* C13 as stated: user_prompts holds, in file order, one preview for every user
\* record whose content is a string, each the first min(200, length) characters.
C13_Previews200 ==
    Scanned =>
        PreviewTexts = [i \in 1..Len(UserRecords) |-> First(TextOf(UserRecords[i]), 200)]

\* C13: user_prompts holds, in file order, one preview for every user record
\* whose content is a string that is not empty; the preview is the first
\* min(200, length) characters in analyze-hooks, where it is kept with the
\* record's timestamp, and the first min(100, length) characters in
\* analyze-session; records with other content add nothing.
C13_PreviewsPerScript ==
    Scanned =>
        /\ PreviewTexts = [i \in 1..Len(NonEmptyUserRecords) |->
                              First(TextOf(NonEmptyUserRecords[i]), PreviewLength)]
        /\ prog = "hooks" =>
              \A i \in 1..Len(NonEmptyUserRecords) :
                  result.user_prompts[i].timestamp
                      = Get(NonEmptyUserRecords[i].value, "timestamp", None)

\* analyze-session has cut a 201-character prompt to 100 characters and kept no
\* preview for an empty prompt and for a prompt that is a list
C13_Witness ==
    /\ prog = "session" /\ pc = "done"
    /\ Len(lines) = 3
    /\ Textual(lines[1]) /\ TextOf(lines[1]) = <<>>
    /\ Textual(lines[2]) /\ Len(TextOf(lines[2])) = 201
    /\ ~Textual(lines[3])
    /\ Len(result.user_prompts) = 1
    /\ Len(result.user_prompts[1]) = 100

\* the blocks of type t in the content sequence of the assistant record of a line
Blocks(line, t) ==
    IF /\ line.parses
       /\ IsObject(line.value)
       /\ Get(line.value, "type", None) = "assistant"
       /\ "message" \in DOMAIN line.value
       /\ IsObject(line.value.message)
       /\ "content" \in DOMAIN line.value.message
       /\ line.value.message.content.kind = "list"
    THEN SelectSeq(line.value.message.content.v,
                   LAMBDA b : IsObject(b) /\ "type" \in DOMAIN b /\ b.type = t)
    ELSE <<>>

NameOf(b) == IF "name" \in DOMAIN b THEN b.name ELSE "unknown"

RECURSIVE ToolUseNames(_)
ToolUseNames(file) ==
    IF file = <<>> THEN <<>>
    ELSE LET bs == Blocks(Head(file), "tool_use")
         IN [i \in 1..Len(bs) |-> NameOf(bs[i])] \o ToolUseNames(Tail(file))

SessionDone == prog = "session" /\ pc = "done"

\* C14 as stated: thinking_blocks is the number of assistant records that hold
\* a thinking block, each counted once, and tool_uses lists the names of the
\* tool_use blocks in order.
C14_ThinkingRecordsOnce ==
    SessionDone =>
        /\ result.thinking_blocks
              = Cardinality({i \in 1..Len(lines) : Blocks(lines[i], "thinking") # <<>>})
        /\ result.tool_uses = ToolUseNames(lines)

\* C14: thinking_blocks of analyze-session is the number of thinking blocks in
\* the content sequences of the assistant records, a record with two such
\* blocks counting twice; tool_uses of both scripts lists, in order, the name of
\* every tool_use block of every assistant record, "unknown" standing for a
\* block without a name.
C14_ThinkingBlocksCounted ==
    Scanned =>
        /\ prog = "session" =>
              result.thinking_blocks
                  = SumOver(1..Len(lines), [i \in 1..Len(lines) |-> Len(Blocks(lines[i], "thinking"))])
        /\ result.tool_uses = ToolUseNames(lines)

\* a record with two thinking blocks and a record with one were counted as
\* three, and a tool use without a name was listed as unknown
C14_Witness ==
    /\ SessionDone
    /\ Len(lines) = 3
    /\ Len(Blocks(lines[1], "thinking")) = 2
    /\ Len(Blocks(lines[2], "thinking")) = 1
    /\ result.thinking_blocks = 3
    /\ result.tool_uses = <<"Bash", "Read", "unknown">>

\* the non-empty request ids of the assistant records, with usage or without
AssistantIds ==
    {SnapId(entries[i]) :
        i \in {k \in 1..Len(entries) : Get(entries[k], "type", None) = "assistant"}} \ {""}

\* the calls counted in the two categories and in the model tallies
CategoryCount == result.hooks.prompt.count + result.main_agent.api_calls

TallyCount ==
    SumOver(DOMAIN result.api_calls_by_model,
            [m \in DOMAIN result.api_calls_by_model |-> Len(result.api_calls_by_model[m])])

\* analyze-session reads the same log to the end
SessionCompletes ==
    \A i \in 1..Len(entries) :
        session_uuid_raises(entries[i]) = None /\ session_scan_raises(entries[i]) = None

\* C15 as stated: the calls of the two categories, the distinct non-empty
\* request ids that carried usage, the calls of the model tallies and the
\* api_calls that analyze-session reports for the same log are the same number.
C15_OneCountEverywhere ==
    HooksDone =>
        /\ CategoryCount = Cardinality(Reconciled)
        /\ CategoryCount = TallyCount
        /\ SessionCompletes =>
              session_parse_session(lines).res.api_calls = CategoryCount

\* C15: after analyze-hooks.parse_session, hooks.prompt.count +
\* main_agent.api_calls is the number of distinct non-empty request ids that
\* carried usage and is the sum over the models of the length of
\* api_calls_by_model; the api_calls of analyze-session for the same log is the
\* number of distinct non-empty request ids of the assistant records, with
\* usage or without, which is never less and is equal exactly when every such
\* id carried usage.
C15_CallsCountedOnce ==
    /\ HooksDone =>
          /\ CategoryCount = Cardinality(Reconciled)
          /\ CategoryCount = TallyCount
          /\ SessionCompletes =>
                LET api_calls == session_parse_session(lines).res.api_calls
                IN /\ api_calls = Cardinality(AssistantIds)
                   /\ api_calls >= CategoryCount
                   /\ (api_calls = CategoryCount) <=> (AssistantIds = Reconciled)
    /\ SessionDone => result.api_calls = Cardinality(AssistantIds)

\* a log with a haiku call and a record of another request id that carried no
\* usage: analyze-hooks has counted one call, in the hook category and in one
\* tally, and analyze-session two
C15_Witness ==
    /\ HooksDone
    /\ result.hooks.prompt.count = 1
    /\ result.main_agent.api_calls = 0
    /\ TallyCount = 1
    /\ \E i \in 1..Len(entries) :
          /\ Get(entries[i], "type", None) = "assistant"
          /\ ~IsSnapshot(entries[i])
          /\ SnapId(entries[i]) \notin Reconciled \cup {""}
    /\ session_parse_session(lines).res.api_calls = 2
====
